---- MODULE Spec2Model ----
(***************************************************************************)
(* Task Tracker CLI (src/task_tracker/task_tracker_improved.py).           *)
(*                                                                         *)
(* Several CLI invocations (operating-system processes) work on one store  *)
(* file and its sibling lock file.  Each invocation constructs a           *)
(* TaskManager (_ensure_store_exists) and runs one Task Store operation.   *)
(* A step of a process is its local computation up to and including one    *)
(* access to a file other processes can see (the store file, the lock      *)
(* file).  The temporary file of _atomic_write has a name of its own       *)
(* (mkstemp), so the accesses to it are local computation; a test that     *)
(* finds the store file present stays true (nothing removes the file) and  *)
(* is joined to the read that follows it.  Every reading of the wall clock *)
(* is later than the one before.  A process that crashes is a process that *)
(* takes no further step.                                                  *)
(***************************************************************************)
EXTENDS Integers, Sequences, FiniteSets, TLC

\* ------------------------------------------------------------------ bounds
NumProcs == 2        \* concurrent invocations
MaxOps == 3          \* operations started in one behaviour, all processes together
Chunks == 2          \* pieces in which the bytes of one write reach a file
SleepSeconds == 3    \* seconds one pass of the retry loop lasts (sleep and scheduling)
MaxId == 1           \* largest task id given on the command line
CliMaxId == 2        \* the same, for the invocations of one process alone

\* ------------------------------------------------------- program constants
STORE_VERSION == 1
LOCK_WAIT_SECONDS == 5
MAX_DESCRIPTION_LEN == 1000

Procs == 1..NumProcs
NoFile == [absent |-> TRUE]

\* ------------------------------------------------------------ record model
\* Members of the Status enumeration and their string values.
Status == {"TODO", "IN_PROGRESS", "DONE"}

StatusValue(s) ==
    CASE s = "TODO" -> "todo"
      [] s = "IN_PROGRESS" -> "in_progress"
      [] s = "DONE" -> "done"

\* Status(value): the member with that value; ValueError for any other value.
StatusValues == {StatusValue(s) : s \in Status}
StatusOfValue(v) == CHOOSE s \in Status : StatusValue(s) = v

\* Faulty variant of the table: a done task may go back to in_progress.
ALLOWED_TRANSITIONS_DoneToProgress ==
    [s \in Status |->
        CASE s = "TODO" -> {"IN_PROGRESS", "DONE"}
          [] s = "IN_PROGRESS" -> {"DONE", "TODO"}
          [] s = "DONE" -> {"TODO", "IN_PROGRESS"}]

\* Finite state machine for allowed transitions.
ALLOWED_TRANSITIONS ==
    [s \in Status |->
        CASE s = "TODO" -> {"IN_PROGRESS", "DONE"}
          [] s = "IN_PROGRESS" -> {"DONE", "TODO"}
          [] s = "DONE" -> {"TODO"}]

\* A description is a text: `core` names its content with the surrounding
\* whitespace removed, `len` is the length of that content, `pad` the number
\* of whitespace characters around it.
Text(pad, core, len) == [pad |-> pad, core |-> core, len |-> len]
Strip(d) == Text(0, d.core, d.len)
Len_(d) == d.pad + d.len

\* Task(id=..., description=...): both timestamps default to the clock.
NewTask(id, description, clock) ==
    [id |-> id, description |-> description, status |-> "TODO",
     created_at |-> clock, updated_at |-> clock]

\* A stored record (a JSON object).  An optional field is a sequence of at
\* most one value: <<>> when the key is absent (or, for id, not an integer).
to_dict(t) ==
    [id |-> <<t.id>>, description |-> t.description,
     status |-> StatusValue(t.status),
     created_at |-> <<t.created_at>>, updated_at |-> <<t.updated_at>>]

\* int(data["id"]) raises for a record without an integer id.
Decodable(d) == d.id # <<>>

\* Faulty variant of from_dict: updated_at is not read from the record, every
\* loaded task gets the current time.
from_dict_Restamp(d, clock) ==
    LET status == IF d.status \in StatusValues THEN StatusOfValue(d.status) ELSE "TODO"
        created_at == IF d.created_at # <<>> THEN d.created_at[1] ELSE clock
    IN  [id |-> d.id[1], description |-> Strip(d.description), status |-> status,
         created_at |-> created_at, updated_at |-> clock]

from_dict(d, clock) ==
    LET status == IF d.status \in StatusValues THEN StatusOfValue(d.status) ELSE "TODO"
        created_at == IF d.created_at # <<>> THEN d.created_at[1] ELSE clock
        updated_at == IF d.updated_at # <<>> THEN d.updated_at[1] ELSE created_at
    IN  [id |-> d.id[1], description |-> Strip(d.description), status |-> status,
         created_at |-> created_at, updated_at |-> updated_at]

\* ------------------------------------------------------------------- codec
\* payload of save: the container that json.dumps serializes.
Payload(tasks) ==
    [version |-> STORE_VERSION,
     tasks |-> [i \in 1..Len(tasks) |-> to_dict(tasks[i])]]

\* A file holds the first `written` of the Chunks pieces of a text.
File(text, written) == [absent |-> FALSE, text |-> text, written |-> written]
Complete(f) == ~f.absent /\ f.written = Chunks

\* The text is a JSON object with a list of records under "tasks".  (The
\* other complete texts are JSON documents of another kind: an array, a
\* number, a string.)
IsContainer(text) == "tasks" \in DOMAIN text

\* load raises: json.load returns a value that has no method get
\* (AttributeError in payload.get); only JSONDecodeError and
\* FileNotFoundError are caught.
LoadRaises(f) == Complete(f) /\ ~IsContainer(f.text)

\* load: a missing file and a text that is no JSON document give the empty list;
\* records that fail from_dict are skipped.  (No list is returned when
\* LoadRaises.)
Load(f, clock) ==
    IF ~Complete(f) \/ ~IsContainer(f.text) THEN <<>>
    ELSE LET records == SelectSeq(f.text.tasks, Decodable)
         IN  [i \in 1..Len(records) |-> from_dict(records[i], clock)]

\* ------------------------------------------------- business operations
\* What an operation does with the loaded list: the exception it raises
\* ("none" when it does not), the list it hands to save, and whether it
\* calls save at all.
Outcome(raises, tasks, saves) == [raises |-> raises, tasks |-> tasks, saves |-> saves]

\* Faulty variant of max: the smallest element.
Max_Min(S) == CHOOSE x \in S : \A y \in S : x <= y

Max(S) == CHOOSE x \in S : \A y \in S : y <= x

\* Faulty variant of _next_id: the number of tasks plus one.
_next_id_Count(tasks) == Len(tasks) + 1

_next_id(tasks) ==
    (IF tasks = <<>> THEN 0 ELSE Max({tasks[i].id : i \in 1..Len(tasks)})) + 1

\* The first task of the list with this id (0: there is none).
Find(tasks, task_id) ==
    LET hits == {i \in 1..Len(tasks) : tasks[i].id = task_id}
    IN  IF hits = {} THEN 0 ELSE CHOOSE i \in hits : \A j \in hits : i <= j

\* Faulty variant of add_task: the list handed to save holds the new task
\* only.
add_task_Alone(description, tasks, clock) ==
    LET d == Strip(description)
    IN  IF d.len = 0 \/ Len_(d) > MAX_DESCRIPTION_LEN
        THEN Outcome("validation", tasks, FALSE)
        ELSE Outcome("none", <<NewTask(_next_id(tasks), d, clock)>>, TRUE)

add_task(description, tasks, clock) ==
    LET d == Strip(description)
    IN  IF d.len = 0 \/ Len_(d) > MAX_DESCRIPTION_LEN
        THEN Outcome("validation", tasks, FALSE)
        ELSE Outcome("none", Append(tasks, NewTask(_next_id(tasks), d, clock)), TRUE)

\* Faulty variant of update_task: the task is replaced by a new Task with the
\* same id instead of being changed in place.
update_task_Recreate(task_id, new_description, tasks, clock) ==
    LET d == Strip(new_description)
        i == Find(tasks, task_id)
    IN  IF d.len = 0 THEN Outcome("validation", tasks, FALSE)
        ELSE IF i = 0 THEN Outcome("not_found", tasks, FALSE)
        ELSE Outcome("none", [tasks EXCEPT ![i] = NewTask(task_id, d, clock)], TRUE)

update_task(task_id, new_description, tasks, clock) ==
    LET d == Strip(new_description)
        i == Find(tasks, task_id)
    IN  IF d.len = 0 THEN Outcome("validation", tasks, FALSE)
        ELSE IF i = 0 THEN Outcome("not_found", tasks, FALSE)
        ELSE Outcome("none",
                     [tasks EXCEPT ![i].description = d, ![i].updated_at = clock],
                     TRUE)

\* Faulty variant of delete_task: the length test is missing, the list is
\* saved whether or not it lost a task.
delete_task_NoCheck(task_id, tasks) ==
    LET Other(t) == t.id # task_id
    IN  Outcome("none", SelectSeq(tasks, Other), TRUE)

delete_task(task_id, tasks) ==
    LET Other(t) == t.id # task_id
        kept == SelectSeq(tasks, Other)
    IN  IF Len(kept) = Len(tasks) THEN Outcome("not_found", tasks, FALSE)
        ELSE Outcome("none", kept, TRUE)

\* change_status: the short-circuit test and the transition-table test.
\* Faulty variant of the short-circuit test: it never finds the status set.
AlreadyInStatus_Never(t, new_status) == FALSE

AlreadyInStatus(t, new_status) == t.status = new_status
TransitionAllowed(from, to) == to \in ALLOWED_TRANSITIONS[from]

\* Faulty variant of change_status: the time is assigned to created_at
\* instead of updated_at.
change_status_StampCreated(task_id, new_status, tasks, clock) ==
    LET i == Find(tasks, task_id)
    IN  IF i = 0 THEN Outcome("not_found", tasks, FALSE)
        ELSE IF AlreadyInStatus(tasks[i], new_status) THEN Outcome("none", tasks, FALSE)
        ELSE IF ~TransitionAllowed(tasks[i].status, new_status)
             THEN Outcome("invalid_transition", tasks, FALSE)
        ELSE Outcome("none",
                     [tasks EXCEPT ![i].status = new_status, ![i].created_at = clock],
                     TRUE)

change_status(task_id, new_status, tasks, clock) ==
    LET i == Find(tasks, task_id)
    IN  IF i = 0 THEN Outcome("not_found", tasks, FALSE)
        ELSE IF AlreadyInStatus(tasks[i], new_status) THEN Outcome("none", tasks, FALSE)
        ELSE IF ~TransitionAllowed(tasks[i].status, new_status)
             THEN Outcome("invalid_transition", tasks, FALSE)
        ELSE Outcome("none",
                     [tasks EXCEPT ![i].status = new_status, ![i].updated_at = clock],
                     TRUE)

\* The order of Python's str comparison on the three status values:
\* "done" < "in_progress" < "todo".
ValueRank(v) ==
    CASE v = "done" -> 1
      [] v = "in_progress" -> 2
      [] v = "todo" -> 3

\* key=lambda t: (t.status.value, t.id), compared as tuples.
KeyLess(a, b) ==
    \/ ValueRank(StatusValue(a.status)) < ValueRank(StatusValue(b.status))
    \/ a.status = b.status /\ a.id < b.id

\* sorted(tasks, key=...): stable, ascending.
RECURSIVE sorted(_)
sorted(ts) ==
    IF ts = <<>> THEN <<>>
    ELSE LET rest == sorted(Tail(ts))
             t == Head(ts)
             Before(x) == KeyLess(x, t)
             NotBefore(x) == ~KeyLess(x, t)
         IN  SelectSeq(rest, Before) \o <<t>> \o SelectSeq(rest, NotBefore)

\* Faulty variant of list_tasks: the filtered list is returned as loaded.
list_tasks_Unsorted(status, tasks) ==
    LET Wanted(t) == status = "NONE" \/ t.status = status
    IN  SelectSeq(tasks, Wanted)

\* list_tasks: status "NONE" stands for status=None (no filter).
list_tasks(status, tasks) ==
    LET Wanted(t) == status = "NONE" \/ t.status = status
    IN  sorted(SelectSeq(tasks, Wanted))

\* One invocation's command: its kind and arguments (`at` is the clock
\* reading the operation took for its timestamps; `step` and `made` are the
\* position of run_self_test in its script and the id its last add_task
\* returned).
Command(kind, id, description, status) ==
    [kind |-> kind, id |-> id, description |-> description, status |-> status,
     at |-> 0, step |-> 0, made |-> 0]

\* run_self_test: the number of manager calls in its script, and the call at
\* position o.step: save(load()), add and delete of an ephemeral task, add
\* of a second one, its three status changes and its delete.
SelfTestSteps == 8
SelfTestCall(o) ==
    CASE o.step = 1 -> Command("resave", 0, Text(0, "", 0), "TODO")
      [] o.step = 2 -> Command("add", 0, Text(0, "__self_test_task__", 18), "TODO")
      [] o.step = 3 -> Command("delete", o.made, Text(0, "", 0), "TODO")
      [] o.step = 4 -> Command("add", 0, Text(0, "__self_test_transitions__", 25), "TODO")
      [] o.step = 5 -> Command("status", o.made, Text(0, "", 0), "IN_PROGRESS")
      [] o.step = 6 -> Command("status", o.made, Text(0, "", 0), "DONE")
      [] o.step = 7 -> Command("status", o.made, Text(0, "", 0), "TODO")
      [] OTHER -> Command("delete", o.made, Text(0, "", 0), "TODO")

\* The manager call of command o; a command given with --dry-run makes none
\* (main prints what it would do).
Run(o, tasks, clock) ==
    CASE o.kind = "add" -> add_task(o.description, tasks, clock)
      [] o.kind = "update" -> update_task(o.id, o.description, tasks, clock)
      [] o.kind = "delete" -> delete_task(o.id, tasks)
      [] o.kind = "status" -> change_status(o.id, o.status, tasks, clock)
      [] o.kind = "list" -> Outcome("none", list_tasks(o.status, tasks), FALSE)
      [] o.kind = "resave" -> Outcome("none", tasks, TRUE)
      [] o.kind = "dry_run" -> Outcome("none", tasks, FALSE)

\* ------------------------------------------------------------------ state
VARIABLES
    store,      \* the store file (self.path)
    lock,       \* the lock file (self.lock_path)
    tmp,        \* tmp[p]: the temporary file of p's _atomic_write
    now,        \* the last reading of the wall clock
    started,    \* invocations started so far
    pc,         \* pc[p]: where process p is
    op,         \* op[p]: the command of p's current (or last) invocation
    tasks,      \* tasks[p]: the list p loaded and changed, handed to save
    ret,        \* ret[p]: the caller of p's _atomic_write ("init" or "save")
    exc,        \* exc[p]: the exception propagating in p ("none": no exception)
    elapsed,    \* elapsed[p]: time.time() - start in p's _acquire_lock
    result,     \* result[p]: how p's last invocation ended
    store0      \* the store file when the behaviour began

vars == <<store, lock, tmp, now, started, pc, op, tasks, ret, exc, elapsed, result, store0>>

LockFile(pid) == [absent |-> FALSE, pid |-> pid]

Ids == 1..MaxId
DescInputs == {Text(1, "b", 1)}
NoText == Text(0, "", 0)
Commands ==
    {Command("add", 0, d, "TODO") : d \in DescInputs}
    \cup {Command("update", i, d, "TODO") : i \in Ids, d \in DescInputs}
    \cup {Command("delete", i, NoText, "TODO") : i \in Ids}
    \cup {Command("status", i, NoText, s) : i \in Ids, s \in Status}

\* The store before the first invocation: no file, or the file an earlier
\* invocation left.
InitStores == {NoFile, File(Payload(<<NewTask(1, Text(0, "a", 1), 0)>>), Chunks)}

\* One process alone is given more to work with: every sub-command of the
\* parser, blank and over-long descriptions, ids no task has, and a store
\* with two tasks (left by add, add, done 2).
CliIds == 1..CliMaxId
CliDescs ==
    DescInputs \cup {Text(2, "", 0), Text(0, "c", MAX_DESCRIPTION_LEN),
                     Text(0, "d", MAX_DESCRIPTION_LEN + 1)}
CliCommands ==
    {Command("add", 0, d, "TODO") : d \in CliDescs}
    \cup {Command("update", i, d, "TODO") : i \in CliIds, d \in CliDescs}
    \cup {Command("delete", i, NoText, "TODO") : i \in CliIds}
    \cup {Command("status", i, NoText, s) : i \in CliIds, s \in Status}
    \cup {Command("list", 0, NoText, s) : s \in Status \cup {"NONE"}}

\* The sub-commands above, a mutating sub-command given with --dry-run, and
\* the sub-command self-test.
MainCommands ==
    CliCommands
    \cup {Command("dry_run", 0, NoText, "TODO"),
          [Command("self_test", 0, NoText, "TODO") EXCEPT !.step = 1]}
CliStores ==
    InitStores
    \cup {File(Payload(<<NewTask(1, Text(0, "a", 1), 0),
                         [NewTask(2, Text(0, "b", 1), 0) EXCEPT !.status = "DONE"]>>),
                Chunks)}

\* A store file as another program or an editor may have left it: next to
\* task 1, a record that has no id; a text cut off before its end; a JSON
\* document that is not an object.
AnyStores ==
    CliStores
    \cup {File([version |-> STORE_VERSION,
                tasks |-> <<to_dict(NewTask(1, Text(0, "a", 1), 0)),
                            [to_dict(NewTask(2, Text(0, "b", 1), 0)) EXCEPT !.id = <<>>]>>],
               Chunks),
          File(Payload(<<NewTask(1, Text(0, "a", 1), 0)>>), 1),
          File([json |-> "array"], Chunks)}

InitWith(stores) ==
    /\ store \in stores
    /\ store0 = store
    /\ lock = NoFile
    /\ tmp = [p \in Procs |-> NoFile]
    /\ now = 0
    /\ started = 0
    /\ pc = [p \in Procs |-> "idle"]
    /\ op = [p \in Procs |-> Command("none", 0, NoText, "TODO")]
    /\ tasks = [p \in Procs |-> <<>>]
    /\ ret = [p \in Procs |-> "none"]
    /\ exc = [p \in Procs |-> "none"]
    /\ elapsed = [p \in Procs |-> 0]
    /\ result = [p \in Procs |-> "none"]

Init == InitWith(InitStores)

CliInit == InitWith(CliStores)

AnyStoreInit == InitWith(AnyStores)

\* The invocation of p ends: main returns (or the exception leaves it).
Finish(p, how) ==
    /\ pc' = [pc EXCEPT ![p] = "idle"]
    /\ result' = [result EXCEPT ![p] = how]
    /\ tasks' = [tasks EXCEPT ![p] = <<>>]
    /\ ret' = [ret EXCEPT ![p] = "none"]
    /\ exc' = [exc EXCEPT ![p] = "none"]
    /\ elapsed' = [elapsed EXCEPT ![p] = 0]

\* How an invocation of command o ends when its manager call ends with
\* `how`: run_self_test catches every exception and reports the failure.
Ends(o, how) ==
    IF o.kind = "self_test" /\ how # "ok" THEN "self_test_failed" ELSE how

\* add_task / update_task / delete_task / change_status of command o up to
\* the call of save: validation, load, the change of the in-memory list
\* (with the clock read for the timestamps).  run_self_test makes the call
\* of its script and goes on to the next one when the call returns.
Operation(p, o) ==
    LET clock == now + 1
        call == IF o.kind = "self_test" THEN SelfTestCall(o) ELSE o
    IN  \E out \in {Run(call, Load(store, clock), clock)} :
        \E raises \in {IF out.raises = "validation" THEN "validation"
                       ELSE IF call.kind # "dry_run" /\ LoadRaises(store) THEN "unexpected"
                       ELSE out.raises} :
        \E made \in {IF call.kind = "add" /\ raises = "none"
                     THEN out.tasks[Len(out.tasks)].id ELSE o.made} :
        \E ran \in {[o EXCEPT !.at = clock, !.made = made]} :
           /\ now' = clock
           /\ IF raises = "none" /\ out.saves
              THEN /\ op' = [op EXCEPT ![p] = ran]
                   /\ tasks' = [tasks EXCEPT ![p] = out.tasks]
                   /\ ret' = [ret EXCEPT ![p] = "save"]
                   /\ pc' = [pc EXCEPT ![p] = "acquire"]
                   /\ result' = [result EXCEPT ![p] = "running"]
                   /\ UNCHANGED <<exc, elapsed>>
              ELSE IF o.kind = "self_test" /\ raises = "none" /\ o.step < SelfTestSteps
              THEN /\ op' = [op EXCEPT ![p] = [ran EXCEPT !.step = o.step + 1]]
                   /\ pc' = [pc EXCEPT ![p] = "op"]
                   /\ result' = [result EXCEPT ![p] = "running"]
                   /\ UNCHANGED <<tasks, ret, exc, elapsed>>
              ELSE /\ op' = [op EXCEPT ![p] = ran]
                   /\ Finish(p, Ends(o, IF raises = "none" THEN "ok" ELSE raises))

\* Faulty variant of the constructor: the empty container is written without
\* the test of os.path.exists.
Invoke_AlwaysInit(p, o) ==
    /\ pc[p] = "idle"
    /\ started < MaxOps
    /\ started' = started + 1
    /\ op' = [op EXCEPT ![p] = o]
    /\ pc' = [pc EXCEPT ![p] = "aw_write"]
    /\ ret' = [ret EXCEPT ![p] = "init"]
    /\ result' = [result EXCEPT ![p] = "running"]
    /\ UNCHANGED <<now, tasks, exc, elapsed>>
    /\ UNCHANGED <<store, lock, tmp, store0>>

\* main: a new invocation parses its arguments and constructs the
\* TaskManager; _ensure_store_exists writes the empty container when
\* os.path.exists finds no store file; otherwise the operation runs.
Invoke(p, o) ==
    /\ pc[p] = "idle"
    /\ started < MaxOps
    /\ started' = started + 1
    /\ IF store.absent
       THEN /\ op' = [op EXCEPT ![p] = o]
            /\ pc' = [pc EXCEPT ![p] = "aw_write"]
            /\ ret' = [ret EXCEPT ![p] = "init"]
            /\ result' = [result EXCEPT ![p] = "running"]
            /\ UNCHANGED <<now, tasks, exc, elapsed>>
       ELSE Operation(p, o)
    /\ UNCHANGED <<store, lock, tmp, store0>>

Start(p) == \E o \in Commands : Invoke(p, o)

\* An invocation with any sub-command and the wider argument values.
CliStart(p) == \E o \in CliCommands : Invoke(p, o)

\* An invocation with any sub-command, --dry-run and self-test included.
MainStart(p) == \E o \in MainCommands : Invoke(p, o)

\* The operation of an invocation that wrote the empty container first.
Operate(p) ==
    /\ pc[p] = "op"
    /\ Operation(p, op[p])
    /\ UNCHANGED <<store, lock, tmp, started, store0>>

\* -------------------------------------------------------------- locking
\* Faulty variant of the timeout test: the loop never gives up.
TimedOut_Never(waited) == FALSE

\* time.time() - start > timeout
TimedOut(waited) == waited > LOCK_WAIT_SECONDS

\* The clock is read in whole seconds; readings past the timeout are all alike.
Later(waited, d) ==
    IF waited + d > LOCK_WAIT_SECONDS THEN LOCK_WAIT_SECONDS + 1 ELSE waited + d

\* Faulty variant of save: no finally clause, _release_lock runs only when
\* the try block ends without an exception.
ReleaseRuns_OnSuccessOnly(e) == e = "none"

\* save's try/finally: _release_lock runs however the try block is left.
ReleaseRuns(e) == TRUE

\* _acquire_lock, one pass of its loop: os.open(O_CREAT | O_EXCL) creates the
\* lock file; when the file exists the pass raises StoreError after the
\* timeout, and sleeps otherwise.
AcquireLock(p) ==
    /\ pc[p] = "acquire"
    /\ IF lock.absent
       THEN /\ lock' = LockFile(0)
            /\ pc' = [pc EXCEPT ![p] = "lock_pid"]
            /\ UNCHANGED <<exc, elapsed, result, tasks, ret>>
       ELSE IF TimedOut(elapsed[p])
       THEN /\ UNCHANGED lock
            /\ IF ReleaseRuns("lock_timeout")
               THEN /\ exc' = [exc EXCEPT ![p] = "lock_timeout"]
                    /\ pc' = [pc EXCEPT ![p] = "release"]
                    /\ UNCHANGED <<elapsed, result, tasks, ret>>
               ELSE Finish(p, Ends(op[p], "lock_timeout"))
       ELSE /\ elapsed' = [elapsed EXCEPT ![p] = Later(elapsed[p], SleepSeconds)]
            /\ UNCHANGED <<lock, pc, exc, result, tasks, ret>>
    /\ UNCHANGED <<store, tmp, now, started, op, store0>>

\* _acquire_lock: open(self.lock_path, "w") and the write of the pid; the
\* open creates the file when it is not there.
WriteLockPid(p) ==
    /\ pc[p] = "lock_pid"
    /\ lock' = LockFile(p)
    /\ pc' = [pc EXCEPT ![p] = "aw_write"]
    /\ UNCHANGED <<store, tmp, now, started, op, tasks, ret, exc, elapsed, result, store0>>

\* Faulty variant of _release_lock: the lock file is left in place.
ReleaseLock_KeepFile(p) ==
    /\ pc[p] = "release"
    /\ IF exc[p] = "none" /\ op[p].kind = "self_test" /\ op[p].step < SelfTestSteps
       THEN /\ op' = [op EXCEPT ![p].step = @ + 1]
            /\ pc' = [pc EXCEPT ![p] = "op"]
            /\ tasks' = [tasks EXCEPT ![p] = <<>>]
            /\ ret' = [ret EXCEPT ![p] = "none"]
            /\ elapsed' = [elapsed EXCEPT ![p] = 0]
            /\ UNCHANGED <<exc, result>>
       ELSE /\ Finish(p, Ends(op[p], IF exc[p] = "none" THEN "ok" ELSE exc[p]))
            /\ UNCHANGED op
    /\ UNCHANGED <<store, lock, tmp, now, started, store0>>

\* _release_lock: os.remove when os.path.exists finds the lock file (the
\* OSError of a file gone in between is logged); save returns or re-raises.
\* When it returns to run_self_test, the next call of the script follows.
ReleaseLock(p) ==
    /\ pc[p] = "release"
    /\ lock' = NoFile
    /\ IF exc[p] = "none" /\ op[p].kind = "self_test" /\ op[p].step < SelfTestSteps
       THEN /\ op' = [op EXCEPT ![p].step = @ + 1]
            /\ pc' = [pc EXCEPT ![p] = "op"]
            /\ tasks' = [tasks EXCEPT ![p] = <<>>]
            /\ ret' = [ret EXCEPT ![p] = "none"]
            /\ elapsed' = [elapsed EXCEPT ![p] = 0]
            /\ UNCHANGED <<exc, result>>
       ELSE /\ Finish(p, Ends(op[p], IF exc[p] = "none" THEN "ok" ELSE exc[p]))
            /\ UNCHANGED op
    /\ UNCHANGED <<store, tmp, now, started, store0>>

\* --------------------------------------------------------- _atomic_write
\* The text _atomic_write is called with.
AwData(p) == IF ret[p] = "init" THEN Payload(<<>>) ELSE Payload(tasks[p])

\* Faulty variant of the write: the text is written to the store file itself
\* (open(self.path, "w")) instead of a temporary file.
WriteTmp_InPlace(p) ==
    /\ pc[p] = "aw_write"
    /\ \/ /\ store' = File(AwData(p), Chunks)
          /\ pc' = [pc EXCEPT ![p] = "aw_finally"]
          /\ UNCHANGED exc
       \/ /\ \E k \in 0..Chunks : store' = File(AwData(p), k)
          /\ exc' = [exc EXCEPT ![p] = "io_error"]
          /\ pc' = [pc EXCEPT ![p] = "aw_finally"]
    /\ UNCHANGED <<tmp, lock, now, started, op, tasks, ret, elapsed, result, store0>>

\* tempfile.mkstemp, tmpf.write, tmpf.flush, os.fsync: the whole text reaches
\* the temporary file, or a call fails after some of its pieces (none when
\* mkstemp itself fails) and control goes to the finally clause.
WriteTmp(p) ==
    /\ pc[p] = "aw_write"
    /\ \/ /\ tmp' = [tmp EXCEPT ![p] = File(AwData(p), Chunks)]
          /\ pc' = [pc EXCEPT ![p] = "aw_replace"]
          /\ UNCHANGED exc
       \/ /\ \E k \in 0..Chunks :
                tmp' = [tmp EXCEPT ![p] = File(AwData(p), k)]
          /\ exc' = [exc EXCEPT ![p] = "io_error"]
          /\ pc' = [pc EXCEPT ![p] = "aw_finally"]
    /\ UNCHANGED <<store, lock, now, started, op, tasks, ret, elapsed, result, store0>>

\* os.replace(tmp, self.path): the temporary file becomes the store file in
\* one step, or the call fails.
Replace(p) ==
    /\ pc[p] = "aw_replace"
    /\ \/ /\ store' = tmp[p]
          /\ tmp' = [tmp EXCEPT ![p] = NoFile]
          /\ UNCHANGED exc
       \/ /\ exc' = [exc EXCEPT ![p] = "replace_error"]
          /\ UNCHANGED <<store, tmp>>
    /\ pc' = [pc EXCEPT ![p] = "aw_finally"]
    /\ UNCHANGED <<lock, now, started, op, tasks, ret, elapsed, result, store0>>

\* Faulty variant of the finally clause: the temporary file is not removed.
AtomicWriteFinally_KeepTmp(p) ==
    /\ pc[p] = "aw_finally"
    /\ IF ret[p] = "init"
       THEN IF exc[p] = "none"
            THEN /\ pc' = [pc EXCEPT ![p] = "op"]
                 /\ ret' = [ret EXCEPT ![p] = "none"]
                 /\ UNCHANGED <<tasks, exc, elapsed, result>>
            ELSE Finish(p, exc[p])
       ELSE /\ pc' = [pc EXCEPT ![p] = "release"]
            /\ UNCHANGED <<tasks, ret, exc, elapsed, result>>
    /\ UNCHANGED <<store, lock, tmp, now, started, op, store0>>

\* The finally clause of _atomic_write (the temporary file is removed when
\* it still exists), and the return to the caller: __init__ goes on to the
\* operation or lets the exception leave main; save goes to its own
\* finally clause.
AtomicWriteFinally(p) ==
    /\ pc[p] = "aw_finally"
    /\ tmp' = [tmp EXCEPT ![p] = NoFile]
    /\ IF ret[p] = "init"
       THEN IF exc[p] = "none"
            THEN /\ pc' = [pc EXCEPT ![p] = "op"]
                 /\ ret' = [ret EXCEPT ![p] = "none"]
                 /\ UNCHANGED <<tasks, exc, elapsed, result>>
            ELSE Finish(p, exc[p])
       ELSE IF ReleaseRuns(exc[p])
            THEN /\ pc' = [pc EXCEPT ![p] = "release"]
                 /\ UNCHANGED <<tasks, ret, exc, elapsed, result>>
            ELSE Finish(p, Ends(op[p], exc[p]))
    /\ UNCHANGED <<store, lock, now, started, op, store0>>

Step(p) ==
    \/ Start(p)
    \/ Operate(p)
    \/ AcquireLock(p)
    \/ WriteLockPid(p)
    \/ WriteTmp(p)
    \/ Replace(p)
    \/ AtomicWriteFinally(p)
    \/ ReleaseLock(p)

Next == \E p \in Procs : Step(p)

Spec == Init /\ [][Next]_vars

\* One process alone: the invocations run one after the other.
SeqNext == Step(1)

SeqSpec == Init /\ [][SeqNext]_vars

\* One process alone, every sub-command.
CliNext ==
    \/ CliStart(1)
    \/ Operate(1)
    \/ AcquireLock(1)
    \/ WriteLockPid(1)
    \/ WriteTmp(1)
    \/ Replace(1)
    \/ AtomicWriteFinally(1)
    \/ ReleaseLock(1)

CliSpec == CliInit /\ [][CliNext]_vars

\* The same, started on any store file.
AnyStoreSpec == AnyStoreInit /\ [][CliNext]_vars

\* One process alone, every sub-command, --dry-run and self-test included.
MainNext ==
    \/ MainStart(1)
    \/ Operate(1)
    \/ AcquireLock(1)
    \/ WriteLockPid(1)
    \/ WriteTmp(1)
    \/ Replace(1)
    \/ AtomicWriteFinally(1)
    \/ ReleaseLock(1)

MainSpec == CliInit /\ [][MainNext]_vars

\* ------------------------------------------------------------ vocabulary
\* p is inside a mutating operation's save, or has loaded the list for it.
InFlight(p) == ret[p] = "save"

\* p is between the successful return of its _acquire_lock and its
\* _release_lock.
Holding(p) ==
    /\ ret[p] = "save"
    /\ pc[p] \in {"aw_write", "aw_replace", "aw_finally", "release"}
    /\ exc[p] # "lock_timeout"

\* The tasks of the store file when the behaviour began.
Tasks0 == Load(store0, 0)

\* The containers left by commands o1 then o2 run one after the other from
\* Tasks0, both returning normally (none when one of them raises).
Serial(o1, o2) ==
    LET a == Run(o1, Tasks0, o1.at)
        b == Run(o2, a.tasks, o2.at)
    IN  IF a.raises = "none" /\ b.raises = "none" THEN {Payload(b.tasks)} ELSE {}

\* ------------------------------------------------------------------ C1
\* C1: when two operations run by two processes on the same store have both
\* returned successfully, the persisted container is the result of applying
\* both one after the other in some order (no update is lost).
C1_NoLostUpdate ==
    (/\ started = 2
     /\ \A p \in {1, 2} : pc[p] = "idle" /\ result[p] = "ok")
    => (/\ Complete(store)
        /\ store.text \in Serial(op[1], op[2]) \cup Serial(op[2], op[1]))

\* ------------------------------------------------------------------ C2
\* C2: at most one process is between a successful return of _acquire_lock
\* and its own _release_lock, also when another acquisition timed out.
C2_MutualExclusion == Cardinality({p \in Procs : Holding(p)}) <= 1

\* ------------------------------------------------------------------ C3
\* C3: a mutating operation reads the store file (load) only after it has
\* acquired the lock: a process that has loaded the list for its mutation
\* holds the lock.
C3_LoadUnderLock == \A p \in Procs : InFlight(p) => Holding(p)

\* ------------------------------------------------------------------ C4
\* A stored record is one that to_dict wrote.
Encoded(d) == Decodable(d) /\ to_dict(from_dict(d, 0)) = d

\* C4: in every state, also in the middle of an _atomic_write and after a
\* failure at any of its steps, the store path holds a complete container
\* that a save or the bootstrap encoded, never a part of one; the file is
\* absent only before the bootstrap.
C4_StoreNeverPartial ==
    IF store.absent
    THEN store0.absent /\ \A p \in Procs : pc[p] \notin {"op", "acquire", "lock_pid", "release"}
    ELSE /\ Complete(store)
         /\ store.text.version = STORE_VERSION
         /\ \A i \in 1..Len(store.text.tasks) : Encoded(store.text.tasks[i])

\* A write failed part-way: the temporary file holds a part of the text a
\* save wanted to write, the store file is whole.
C4_Witness ==
    \E p \in Procs :
        /\ pc[p] = "aw_finally" /\ exc[p] = "io_error" /\ ret[p] = "save"
        /\ ~tmp[p].absent /\ tmp[p].written > 0 /\ tmp[p].written < Chunks
        /\ Complete(store) /\ store.text # tmp[p].text

RunsChangeStatus(p) ==
    now' # now /\ op'[p].at = now' /\ op'[p].kind = "status"

\* C9: for an existing task in status s and a target t other than s,
\* change_status passes to save with the task set to t exactly when t is in
\* the entry of s in the table todo -> {in_progress, done}, in_progress ->
\* {done, todo}, done -> {todo}, and the save that ends without error
\* persists t; for any other pair (done -> in_progress among them) it raises
\* the invalid-transition error and the store file is unchanged.
C9_TransitionTable ==
    [][\A p \in Procs :
          /\ RunsChangeStatus(p) =>
                LET ts == Load(store, now')
                    i == Find(ts, op'[p].id)
                    t == op'[p].status
                    s == ts[i].status
                    listed == \/ s = "TODO" /\ t \in {"IN_PROGRESS", "DONE"}
                              \/ s = "IN_PROGRESS" /\ t \in {"DONE", "TODO"}
                              \/ s = "DONE" /\ t \in {"TODO"}
                IN  (i # 0 /\ s # t) =>
                       IF listed
                       THEN /\ pc'[p] = "acquire"
                            /\ tasks'[p] = [ts EXCEPT ![i].status = t,
                                                      ![i].updated_at = now']
                       ELSE /\ pc'[p] = "idle"
                            /\ result'[p] = "invalid_transition"
                            /\ UNCHANGED <<store, lock, tmp>>
          /\ (/\ op[p].kind = "status" /\ Holding(p) /\ exc[p] = "none"
              /\ pc'[p] = "idle")
                => /\ result'[p] = "ok"
                   /\ LET ts == Load(store', 0)
                          i == Find(ts, op[p].id)
                      IN  i # 0 /\ ts[i].status = op[p].status]_vars

\* A done task was asked to go to in_progress: the invocation ended with the
\* invalid-transition error and the task is still done in the store file.
C9_Witness ==
    /\ pc[1] = "idle" /\ result[1] = "invalid_transition"
    /\ op[1].kind = "status" /\ op[1].status = "IN_PROGRESS"
    /\ LET ts == Load(store, 0)
           i == Find(ts, op[1].id)
       IN  i # 0 /\ ts[i].status = "DONE" /\ ts[i].updated_at < op[1].at

\* ----------------------------------------------------------------- C10
\* C10: change_status on a task that already has the target status returns
\* normally and touches neither the lock file nor the store file (nor a
\* temporary file): the container, the task's updated_at included, is the
\* same after the call, so a second call with the same target changes
\* nothing.
C10_SameStatusNoOp ==
    [][\A p \in Procs :
          RunsChangeStatus(p) =>
             LET ts == Load(store, now')
                 i == Find(ts, op'[p].id)
             IN  (i # 0 /\ ts[i].status = op'[p].status) =>
                    /\ pc'[p] = "idle"
                    /\ result'[p] = "ok"
                    /\ UNCHANGED <<store, lock, tmp>>]_vars

\* A task was set to done by an earlier call; a later call with the same
\* target returned normally and the task's updated_at is still that of the
\* earlier call.
C10_Witness ==
    /\ pc[1] = "idle" /\ result[1] = "ok"
    /\ op[1].kind = "status" /\ op[1].status = "DONE"
    /\ lock.absent
    /\ LET ts == Load(store, 0)
           i == Find(ts, op[1].id)
       IN  /\ i # 0 /\ ts[i].status = "DONE"
           /\ ts[i].updated_at > ts[i].created_at
           /\ ts[i].updated_at < op[1].at

\* ----------------------------------------------------------------- C11
\* p takes the step that runs the operation of its command (the step that
\* reads the clock).
Runs(p, kind) == now' # now /\ op'[p].at = now' /\ op'[p].kind = kind

BusinessErrors == {"validation", "not_found", "invalid_transition"}

\* C11: an operation that ends with a validation, not-found or
\* invalid-transition error ends in the step that loaded the list, and that
\* step leaves the store file, the lock file and the temporary file alone;
\* a blank description (add, update) gives the validation error and an id no
\* task has (update, delete, change_status) the not-found error.
C11_FailedOperationTouchesNothing ==
    [][\A p \in Procs :
          /\ (result'[p] \in BusinessErrors /\ (result'[p] # result[p] \/ now' # now))
                => /\ now' # now /\ op'[p].at = now'
                   /\ pc'[p] = "idle"
                   /\ UNCHANGED <<store, lock, tmp>>
          /\ \A kind \in {"add", "update", "delete", "status"} :
                Runs(p, kind) =>
                   LET o == op'[p]
                       blank == kind \in {"add", "update"} /\ o.description.len = 0
                       missing == /\ kind \in {"update", "delete", "status"}
                                  /\ \A i \in 1..Len(Load(store, now')) :
                                        Load(store, now')[i].id # o.id
                   IN  /\ blank => result'[p] = "validation"
                       /\ (missing /\ ~blank) => result'[p] = "not_found"]_vars

\* A delete of an id no task has ended with the not-found error: the store
\* file is the one the behaviour began with and there is no lock file.
C11_Witness ==
    /\ pc[1] = "idle" /\ result[1] = "not_found"
    /\ op[1].kind = "delete" /\ op[1].at > 0
    /\ Complete(store) /\ store = store0
    /\ lock.absent /\ tmp[1] = NoFile

\* ----------------------------------------------------------------- C12
\* C12: update_task validates the description as add_task does: for an
\* existing id and a description that add_task rejects (blank, or longer
\* than 1000 characters), update_task raises the validation error and the
\* store file (the task's description in it) stays as it is.
C12_UpdateValidatesLikeAdd ==
    [][\A p \in Procs :
          Runs(p, "update") =>
             LET o == op'[p]
                 ts == Load(store, now')
             IN  (/\ Find(ts, o.id) # 0
                  /\ add_task(o.description, ts, now').raises = "validation")
                    => /\ result'[p] = "validation"
                       /\ pc'[p] = "idle"
                       /\ UNCHANGED store]_vars

\* ----------------------------------------------------------------- C13
\* The elements of a sequence.
Range(seq) == {seq[i] : i \in 1..Len(seq)}

\* p's os.replace succeeds in the save of an operation of this kind.
Persists(p, kind) ==
    /\ pc[p] = "aw_replace" /\ ret[p] = "save" /\ op[p].kind = kind
    /\ pc'[p] = "aw_finally" /\ exc'[p] = "none"

\* C13: add_task with a description that is not blank and has at most 1000
\* characters (surrounding whitespace not counted) goes on to save, and
\* when its save has replaced the store file, list_tasks() returns every
\* task it returned before and exactly one more, with the description
\* given (stripped) and status todo.
C13_AddThenList ==
    [][\A p \in Procs :
          /\ Runs(p, "add") =>
                LET d == op'[p].description
                IN  (d.len > 0 /\ d.len <= 1000) => pc'[p] = "acquire"
          /\ Persists(p, "add") =>
                LET before == list_tasks("NONE", Load(store, 0))
                    after == list_tasks("NONE", Load(store', 0))
                    new == {i \in 1..Len(after) : after[i] \notin Range(before)}
                IN  /\ Len(after) = Len(before) + 1
                    /\ Range(before) \subseteq Range(after)
                    /\ Cardinality(new) = 1
                    /\ \A i \in new :
                          /\ after[i].description.core = op[p].description.core
                          /\ after[i].description.len = op[p].description.len
                          /\ after[i].description.pad = 0
                          /\ after[i].status = "TODO"]_vars

\* An add on a store with two tasks has returned normally: the store holds
\* three tasks, the third with the description given and status todo.
C13_Witness ==
    /\ pc[1] = "idle" /\ result[1] = "ok" /\ op[1].kind = "add"
    /\ started = 1 /\ Len(Tasks0) = 2
    /\ LET ts == list_tasks("NONE", Load(store, 0))
       IN  /\ Len(ts) = 3
           /\ \E i \in 1..3 :
                 /\ ts[i].description.core = op[1].description.core
                 /\ ts[i].status = "TODO" /\ ts[i].created_at = op[1].at

\* ----------------------------------------------------------------- C14
\* C14: the task add_task appends to the loaded list has the id 1 when the
\* list is empty and otherwise one more than the largest id in the list; the
\* record its save writes carries that id.
C14_NextIdIsMaxPlusOne ==
    [][\A p \in Procs :
          /\ (Runs(p, "add") /\ pc'[p] = "acquire") =>
                LET ts == Load(store, now')
                    ids == {ts[i].id : i \in 1..Len(ts)}
                    new == tasks'[p][Len(tasks'[p])]
                IN  /\ Len(tasks'[p]) = Len(ts) + 1
                    /\ IF ids = {} THEN new.id = 1
                       ELSE /\ new.id - 1 \in ids
                            /\ \A j \in ids : j <= new.id - 1
          /\ Persists(p, "add") =>
                LET written == store'.text.tasks
                IN  written[Len(written)].id = <<tasks[p][Len(tasks[p])].id>>]_vars

\* Two adds on a store that did not exist: the store holds the tasks 1 and 2,
\* in this order.
C14_Witness ==
    /\ store0.absent /\ started = 2
    /\ pc[1] = "idle" /\ result[1] = "ok" /\ op[1].kind = "add"
    /\ LET ts == Load(store, 0)
       IN  Len(ts) = 2 /\ ts[1].id = 1 /\ ts[2].id = 2

\* ----------------------------------------------------------------- C15
\* C15: an id that was assigned to a task once is never assigned by
\* add_task again: the id add_task gives its new task is not the id of a
\* task the store held when the behaviour began.
C15_IdsNeverReused ==
    [][\A p \in Procs :
          (Runs(p, "add") /\ pc'[p] = "acquire") =>
             tasks'[p][Len(tasks'[p])].id \notin {Tasks0[i].id : i \in 1..Len(Tasks0)}]_vars

\* ----------------------------------------------------------------- C16
\* C16: in every state, whatever the processes did and however their steps
\* interleaved, the records of the store file have integer ids greater
\* than 0, no two of them the same.
C16_IdsDistinctPositive ==
    ~store.absent =>
       LET rs == store.text.tasks
       IN  /\ \A i \in 1..Len(rs) : rs[i].id # <<>> /\ rs[i].id[1] \in Nat \ {0}
           /\ \A i, j \in 1..Len(rs) : i # j => rs[i].id # rs[j].id

\* Two processes added a task each to a store that did not exist, one after
\* the other's save: the store holds the ids 1 and 2.
C16_Witness ==
    /\ store0.absent
    /\ \A p \in {1, 2} : pc[p] = "idle" /\ result[p] = "ok" /\ op[p].kind = "add"
    /\ Complete(store)
    /\ {store.text.tasks[i].id : i \in 1..Len(store.text.tasks)} = {<<1>>, <<2>>}

\* ----------------------------------------------------------------- C17
\* Two invocations have run and the second, a delete of an id the store did
\* not hold at the start, returned normally: the first was the add that
\* returned this id.
AddThenDeleteDone ==
    /\ started = 2
    /\ pc[1] = "idle" /\ result[1] = "ok" /\ op[1].kind = "delete"
    /\ op[1].id \notin {Tasks0[i].id : i \in 1..Len(Tasks0)}

\* The store file as it was before the add (a store that did not exist is
\* first written as the empty container by the constructor).
ContainerBefore == IF store0.absent THEN Payload(<<>>) ELSE store0.text

\* Every record of the file is one that to_dict wrote, under the current
\* version.
WrittenByProgram(f) ==
    f.absent \/ (/\ Complete(f)
                 /\ IsContainer(f.text)
                 /\ f.text.version = STORE_VERSION
                 /\ \A i \in 1..Len(f.text.tasks) : Encoded(f.text.tasks[i]))

\* C17 as stated: for every store state, add_task followed at once by
\* delete_task of the id it returned leaves the store file as it was before
\* the add, record for record.
C17_RoundTripAnyStore ==
    AddThenDeleteDone => (Complete(store) /\ store.text = ContainerBefore)

\* C17, amended: for every store file whose records the program wrote,
\* add_task followed at once by delete_task of the id it returned leaves the
\* store file as it was before the add, record for record.
C17_AddThenDeleteRestores ==
    (AddThenDeleteDone /\ WrittenByProgram(store0))
       => (Complete(store) /\ store.text = ContainerBefore)

\* The store held task 1; an add returned id 2 and the delete of 2 returned
\* normally: the store file is the one the behaviour began with.
C17_Witness ==
    /\ AddThenDeleteDone /\ WrittenByProgram(store0)
    /\ op[1].id = 2
    /\ Len(Tasks0) = 1 /\ Tasks0[1].id = 1
    /\ store = store0

\* ----------------------------------------------------------------- C18
\* C18: update_task on an existing task with a description that is not
\* blank hands to save a list in which that task has the description given
\* and a new updated_at, and its id, status and created_at, and every other
\* task, are as loaded; the same holds of the store file once the save has
\* replaced it.
C18_UpdateChangesOnlyDescription ==
    [][\A p \in Procs :
          /\ (Runs(p, "update") /\ pc'[p] = "acquire") =>
                LET ts == Load(store, now')
                    us == tasks'[p]
                    i == Find(ts, op'[p].id)
                IN  /\ i # 0 /\ Len(us) = Len(ts)
                    /\ us[i].id = ts[i].id
                    /\ us[i].status = ts[i].status
                    /\ us[i].created_at = ts[i].created_at
                    /\ us[i].description.core = op'[p].description.core
                    /\ us[i].updated_at = now'
                    /\ \A j \in 1..Len(ts) : j # i => us[j] = ts[j]
          /\ Persists(p, "update") =>
                LET ts == Load(store, 0)
                    us == Load(store', 0)
                    i == Find(ts, op[p].id)
                IN  /\ i # 0 /\ Len(us) = Len(ts)
                    /\ us[i].id = ts[i].id
                    /\ us[i].status = ts[i].status
                    /\ us[i].created_at = ts[i].created_at
                    /\ \A j \in 1..Len(ts) : j # i => us[j] = ts[j]]_vars

\* The done task 2 was given a new description: it is still done and still
\* has its created_at, and its updated_at is the time of the update.
C18_Witness ==
    /\ pc[1] = "idle" /\ result[1] = "ok" /\ op[1].kind = "update" /\ op[1].id = 2
    /\ LET ts == Load(store, 0)
           i == Find(ts, 2)
       IN  /\ i # 0
           /\ ts[i].status = "DONE"
           /\ ts[i].description.core = op[1].description.core
           /\ ts[i].updated_at = op[1].at /\ ts[i].created_at < op[1].at

\* ----------------------------------------------------------------- C19
\* C19: list_tasks returns the tasks of the store file that have the status
\* asked for (all of them without a filter), each as often as the file holds
\* it, in ascending order of (status value, id), and the invocation leaves
\* the store file, the lock file and the temporary file alone.
C19_ListFiltersAndSorts ==
    [][\A p \in Procs :
          Runs(p, "list") =>
             LET ts == Load(store, now')
                 f == op'[p].status
                 r == list_tasks(f, ts)
                 wanted == {i \in 1..Len(ts) : f = "NONE" \/ ts[i].status = f}
             IN  /\ Range(r) = {ts[i] : i \in wanted}
                 /\ Len(r) = Cardinality(wanted)
                 /\ \A i, j \in 1..Len(r) :
                       i < j =>
                          \/ ValueRank(StatusValue(r[i].status))
                                < ValueRank(StatusValue(r[j].status))
                          \/ /\ r[i].status = r[j].status
                             /\ r[i].id <= r[j].id
                 /\ pc'[p] = "idle" /\ result'[p] = "ok"
                 /\ UNCHANGED <<store, lock, tmp>>]_vars

\* A list without filter of a store whose file order is not the order of
\* (status value, id): the done task 2 comes before the todo task 1.
C19_Witness ==
    /\ pc[1] = "idle" /\ result[1] = "ok"
    /\ op[1].kind = "list" /\ op[1].status = "NONE" /\ op[1].at > 0
    /\ LET ts == Load(store, 0)
       IN  /\ Len(ts) >= 2
           /\ ts[1].status = "TODO" /\ ts[2].status = "DONE"
           /\ list_tasks("NONE", ts)[1] = ts[2]

\* ----------------------------------------------------------------- C20
\* C20: in every state, whatever the processes did and however their steps
\* interleaved, every record of the store file has created_at <= updated_at.
C20_CreatedBeforeUpdated ==
    ~store.absent =>
       \A i \in 1..Len(store.text.tasks) :
          LET r == store.text.tasks[i]
          IN  /\ r.created_at # <<>> /\ r.updated_at # <<>>
              /\ r.created_at[1] <= r.updated_at[1]

\* On a store that did not exist one process added task 1 and the other
\* changed it later: its updated_at is later than its created_at.
C20_Witness ==
    /\ store0.absent /\ Complete(store)
    /\ \E p, q \in Procs :
          /\ p # q
          /\ pc[p] = "idle" /\ result[p] = "ok" /\ op[p].kind = "add"
          /\ pc[q] = "idle" /\ result[q] = "ok" /\ op[q].kind \in {"update", "status"}
          /\ \E i \in 1..Len(store.text.tasks) :
                LET r == store.text.tasks[i]
                IN  /\ r.created_at = <<op[p].at>>
                    /\ r.updated_at = <<op[q].at>>
                    /\ op[p].at < op[q].at

\* ----------------------------------------------------------------- C21
\* C21: load never raises, whatever the store file holds: no operation that
\* loads the list ends with an exception that load let through; and add_task
\* appends its task to the empty list when the file holds no complete JSON
\* object, and otherwise to the list of the records that from_dict accepts.
C21_LoadTotalAndTolerant ==
    [][\A p \in Procs :
          \A kind \in {"add", "update", "delete", "status", "list"} :
             Runs(p, kind) =>
                /\ result'[p] # "unexpected"
                /\ (kind = "add" /\ pc'[p] = "acquire") =>
                      Len(tasks'[p]) =
                         1 + (IF Complete(store) /\ IsContainer(store.text)
                              THEN Cardinality({i \in 1..Len(store.text.tasks) :
                                                  store.text.tasks[i].id # <<>>})
                              ELSE 0)]_vars

\* ----------------------------------------------------------------- C22
\* The class of the exception that reaches main for each way an operation
\* ends: ValueError for a rejected description and for a transition outside
\* the table, KeyError for an unknown id, StoreError for the lock timeout,
\* OSError from open/write/os.replace, AttributeError from load.
ExceptionType(how) ==
    CASE how \in {"validation", "invalid_transition"} -> "ValueError"
      [] how = "not_found" -> "KeyError"
      [] how = "lock_timeout" -> "StoreError"
      [] how \in {"io_error", "replace_error"} -> "OSError"
      [] how = "unexpected" -> "AttributeError"
      [] OTHER -> "none"

\* main's return value for an exception raised inside its try block: its
\* except clauses in order.
ExitCode(how) ==
    LET type == ExceptionType(how)
    IN  CASE type = "none" -> 0
          [] type = "StoreError" -> 2
          [] type = "KeyError" -> 3
          [] type = "ValueError" -> 4
          [] OTHER -> 99

\* The error kind that an ending stands for (the two steps of the atomic
\* write fail with one kind, the I/O failure).
ErrorKind(how) == IF how = "replace_error" THEN "io_error" ELSE how

ErrorKinds == {"validation", "not_found", "invalid_transition", "lock_timeout", "io_error"}

\* C22: two invocations that fail with different error kinds reach main as
\* exceptions of different classes and end with different exit codes.
C22_ErrorKindsDistinct ==
    [][(/\ ErrorKind(result[1]) \in ErrorKinds
        /\ ErrorKind(result'[1]) \in ErrorKinds
        /\ ErrorKind(result'[1]) # ErrorKind(result[1]))
          => /\ ExceptionType(result'[1]) # ExceptionType(result[1])
             /\ ExitCode(result'[1]) # ExitCode(result[1])]_vars

\* ----------------------------------------------------------------- C23
\* C23: no step of an invocation with --dry-run changes the store file or
\* the lock file, also when the store file does not exist at its start.
C23_DryRunTouchesNoFile ==
    [][op'[1].kind = "dry_run" => (store' = store /\ lock' = lock)]_vars

\* ----------------------------------------------------------------- C24
\* C24: when run_self_test has returned (PASSED or FAILED), in the first
\* invocation on a store of valid records, the list of tasks in the store
\* file is the list that was there before.
C24_SelfTestRestoresList ==
    (/\ started = 1 /\ pc[1] = "idle" /\ op[1].kind = "self_test"
     /\ result[1] \in {"ok", "self_test_failed"})
        => Load(store, 0) = Tasks0

\* ----------------------------------------------------------------- C25
\* C25: whenever the store file is replaced, every task that is in the old
\* and in the new content with different statuses has moved along an edge
\* of the transition table, whatever the interleaving of the processes.
C25_PersistedTransitionsLegal ==
    [][(store' # store /\ ~store.absent) =>
          \A i \in 1..Len(store.text.tasks) :
             \A j \in 1..Len(store'.text.tasks) :
                LET old == store.text.tasks[i]
                    new == store'.text.tasks[j]
                IN  (old.id = new.id /\ old.status # new.status) =>
                       TransitionAllowed(StatusOfValue(old.status),
                                         StatusOfValue(new.status))]_vars

\* ----------------------------------------------------------------- C26
\* C26: a save whose _acquire_lock raised the timeout error returns without
\* touching the lock file, which another process created.
C26_TimedOutSaveKeepsLock ==
    [][\A p \in Procs :
          (pc[p] = "release" /\ exc[p] = "lock_timeout" /\ pc'[p] = "idle")
             => lock' = lock]_vars

\* ----------------------------------------------------------------- C27
\* C27 as stated: the os.replace of _ensure_store_exists never replaces a
\* store file that holds tasks.
C27_InitKeepsTasks ==
    [][\A p \in Procs :
          (/\ pc[p] = "aw_replace" /\ ret[p] = "init"
           /\ ~store.absent /\ Len(store.text.tasks) > 0)
             => store' = store]_vars

\* C27: a constructor that finds the store file writes nothing (the write
\* of _ensure_store_exists begins only when there is no store file); a
\* constructor that found none installs the empty container, over whatever
\* was installed since its test.
C27_InitOnlyWhenAbsent ==
    [][\A p \in Procs :
          /\ (ret[p] # "init" /\ ret'[p] = "init") => (store.absent /\ store' = store)
          /\ (/\ ret[p] = "init" /\ pc[p] = "aw_replace" /\ pc'[p] = "aw_finally"
              /\ store' # store)
                => store' = File(Payload(<<>>), Chunks)]_vars

\* An invocation that started on a store file with tasks is in its
\* operation's save, the file as it was.
C27_Witness ==
    \E p \in Procs :
       /\ pc[p] = "acquire" /\ ret[p] = "save"
       /\ store = store0 /\ ~store.absent /\ Len(store.text.tasks) > 0

\* ----------------------------------------------------------------- C28
\* C28: when the save of a mutating operation replaces the store file, the
\* records of the old file other than the one the operation targets (for
\* add_task, the new one) are the records of the new file other than that
\* one, in the same order, the records that from_dict rejects included.
C28_OtherRecordsKept ==
    [][\A p \in Procs :
          \A kind \in {"add", "update", "delete", "status"} :
             (Persists(p, kind) /\ store' # store /\ Complete(store) /\ IsContainer(store.text)) =>
                LET target == IF kind = "add" THEN tasks[p][Len(tasks[p])].id
                              ELSE op[p].id
                    Other(r) == r.id # <<target>>
                IN  SelectSeq(store'.text.tasks, Other)
                       = SelectSeq(store.text.tasks, Other)]_vars

\* ------------------------------------------------------------------ C7
\* Process 1 keeps running (the scheduler gives it its turn); the other
\* processes may be slow without bound or stop for good, also while they
\* hold the lock.
FairSpec == Spec /\ WF_vars(Step(1))

\* C7: a call of _acquire_lock does not block forever, whatever the other
\* processes do: it returns with the lock or raises the timeout error, and
\* the invocation of the mutating operation comes to its end.
C7_AcquireTerminates ==
    /\ (pc[1] = "acquire") ~> (pc[1] = "lock_pid" \/ exc[1] = "lock_timeout")
    /\ (pc[1] # "idle") ~> (pc[1] = "idle")

\* Process 1 gave up after the timeout while the lock file was still there.
C7_Witness ==
    /\ pc[1] = "release" /\ exc[1] = "lock_timeout"
    /\ elapsed[1] > LOCK_WAIT_SECONDS
    /\ ~lock.absent
====
